---- MODULE Spec2Model ----
(***************************************************************************)
(* A model of the in-process task scheduler: Job (job.go) and Server       *)
(* (server.go).  Time is a discrete clock; the zero time.Time is Zero.     *)
(* Every goroutine (a Serve call, a Stop call, a New call, a dispatched    *)
(* run) is a process whose steps are the shared-memory accesses of its     *)
(* code, since the code takes no lock.                                     *)
(***************************************************************************)
EXTENDS Integers, Sequences, FiniteSets, Bags, TLC

\* ---------------------------------------------------------------- bounds
MaxTime == 3        \* the clock runs 1..MaxTime
MaxJobs == 2        \* jobs ever registered
MaxRuns == 1        \* runs of one job in flight at once
OverlapJobs == 1    \* the same two, where runs of one job overlap
OverlapRuns == 2
NumServe == 2       \* concurrent callers of Serve
NumNew == 2         \* concurrent callers of New
SortJobs == 3       \* jobs of a collection given to sortJobs
SortTime == 2       \* their next times are 0..SortTime
MaxEntries == 2     \* entries in the text of one field

\* ------------------------------------------------------------- constants
Zero == 0           \* time.Time{}: IsZero()
StopCap == 1        \* make(chan struct{}, 1)
NextScheduledCap == 1

JobIds == 1..MaxJobs
ServeIds == 1..NumServe
NewIds == 1..NumNew

\* State (job.go:18-22)
Stopped == "Stopped"
Running == "Running"
Failed == "Failed"

\* results of Serve
ErrRunning == "ErrRunning"
ErrNoJobs == "ErrNoJobs"
Nil == "nil"

\* ------------------------------------------------- the cron expression
\* The text of an expression is its fields in order; the text of a field is
\* the wildcard or its comma-separated entries, an integer n being the entry
\* <<n, n>> and a range lo-hi the entry <<lo, hi>>.  A uint64 is the set of
\* the positions of its one bits.

\* the indices of the six fields: second, minute, hour, day, month, week
secondIndex == 1
minuteIndex == 2
hourIndex == 3
dayIndex == 4
monthIndex == 5
weekIndex == 6
FieldIndices == secondIndex..weekIndex

\* the inclusive bounds of each field
FieldMin == <<0, 0, 0, 1, 1, 0>>
FieldMax == <<59, 59, 23, 31, 12, 7>>

\* the three kinds of a parsed field
any == [kind |-> "Any", bits |-> {}]
step == [kind |-> "Step", bits |-> {}]
Concrete(b) == [kind |-> "Concrete", bits |-> b]

star == [star |-> TRUE, list |-> << >>]
text(l) == [star |-> FALSE, list |-> l]

\* what parseField and Parse return when they fail: the value 0, no rule
fieldErr == [err |-> TRUE, val |-> Concrete({})]
parseErr == [err |-> TRUE, data |-> << >>]

\* the bit of value k in a field: the week's 7 is its 0
fold(typ, k) == IF typ = weekIndex /\ k = 7 THEN 0 ELSE k

\* a parseField that sets bits without looking for a value given twice
RECURSIVE parseEntriesNoDup(_, _, _, _)
parseEntriesNoDup(typ, l, i, acc) ==
  IF i > Len(l) THEN [err |-> FALSE, val |-> Concrete(acc)]
  ELSE LET lo == l[i][1]
           hi == l[i][2]
           bits == {fold(typ, k) : k \in lo..hi}
       IN IF lo < FieldMin[typ] \/ hi > FieldMax[typ] \/ lo > hi
          THEN fieldErr
          ELSE parseEntriesNoDup(typ, l, i + 1, acc \cup bits)

\* the entries of a field from the i-th on, acc holding the bits set so far:
\* a value out of the field's bounds, or a bit that is already set, is an error
RECURSIVE parseEntries(_, _, _, _)
parseEntries(typ, l, i, acc) ==
  IF i > Len(l) THEN [err |-> FALSE, val |-> Concrete(acc)]
  ELSE LET lo == l[i][1]
           hi == l[i][2]
           bits == {fold(typ, k) : k \in lo..hi}
       IN IF lo < FieldMin[typ] \/ hi > FieldMax[typ] \/ lo > hi
          THEN fieldErr
          ELSE IF Cardinality(bits) < hi - lo + 1 \/ bits \cap acc # {}
          THEN fieldErr
          ELSE parseEntries(typ, l, i + 1, acc \cup bits)

\* parseField(typ, field)
parseField(typ, f) ==
  IF f.star THEN [err |-> FALSE, val |-> any]
  ELSE parseEntries(typ, f.list, 1, {})

\* a classification that makes every wildcard Any
RECURSIVE classifyAny(_, _, _)
classifyAny(vals, i, pinned) ==
  IF i > Len(vals) THEN << >>
  ELSE << vals[i] >> \o classifyAny(vals, i + 1, pinned)

\* the classification pass of Parse, left to right from field i: a wildcard
\* is Step once a field to its left is Concrete
RECURSIVE classify(_, _, _)
classify(vals, i, pinned) ==
  IF i > Len(vals) THEN << >>
  ELSE IF vals[i].kind = "Concrete"
       THEN << vals[i] >> \o classify(vals, i + 1, TRUE)
       ELSE << IF pinned THEN step ELSE any >> \o classify(vals, i + 1, pinned)

\* the macros and the expressions they stand for
zeroField == text(<< <<0, 0>> >>)
Macros == [name \in {"@daily"} |->
             << zeroField, zeroField, zeroField, star, star, star >>]

\* Parse of six-field text
parseFields(fs) ==
  IF Len(fs) # 6 THEN parseErr
  ELSE LET r == [i \in FieldIndices |-> parseField(i, fs[i])] IN
         IF \E i \in FieldIndices : r[i].err THEN parseErr
         ELSE IF \A i \in FieldIndices : r[i].val.kind # "Concrete" THEN parseErr
         ELSE [err |-> FALSE,
               data |-> classify([i \in FieldIndices |-> r[i].val], 1, FALSE)]

\* Parse(spec): a macro is replaced by its expression
Parse(e) ==
  IF e.macro # ""
  THEN IF e.macro \in DOMAIN Macros THEN parseFields(Macros[e.macro]) ELSE parseErr
  ELSE parseFields(e.fields)

\* the text of an expression, and of a macro
expr(fs) == [macro |-> "", fields |-> fs]
macro(m) == [macro |-> m, fields |-> << >>]

\* the registrations New is called with: a scheduler, ticker.New(v) or
\* at.At(v), and the delay flag
Configs ==
  { [kind |-> "ticker", v |-> 1, delay |-> FALSE],
    [kind |-> "ticker", v |-> 2, delay |-> TRUE],
    [kind |-> "at", v |-> 2, delay |-> FALSE] }

\* the calendar fields of the time t: the clock counts the seconds of one day,
\* the first of January, a Monday
calendar(t) == << t % 60, (t \div 60) % 60, (t \div 3600) % 24, 1, 1, 1 >>

\* the time t is admitted by the rule: every Concrete field has its bit
matches(data, t) ==
  \A i \in FieldIndices :
    data[i].kind = "Concrete" => calendar(t)[i] \in data[i].bits

\* the forward search of the calendar scheduler looks this far ahead
CronHorizon == 60

\* the earliest admitted time after last, the zero time when the search ends
cronNext(data, last) ==
  LET c == {t \in (last + 1)..(last + CronHorizon) : matches(data, t)} IN
    IF c = {} THEN Zero ELSE CHOOSE t \in c : \A u \in c : t <= u

\* ticker.New(dur, imm): a duration that is not positive is an error
tickerNew(dur) ==
  [err |-> dur <= 0, s |-> [kind |-> "ticker", v |-> dur]]

\* Scheduler.Next(last): a ticker adds its duration, a one-shot gives its
\* time while that is after last and the zero time from then on
SchedNext(s, last) ==
  IF s.kind = "ticker" THEN last + s.v
  ELSE IF s.kind = "cron" THEN cronNext(s.v, last)
  ELSE IF s.v > last THEN s.v ELSE Zero

VARIABLES
  now,            \* the wall clock, time.Now()
  running,        \* Server.running
  stop,           \* len(Server.stop)
  nextScheduled,  \* len(Server.nextScheduled)
  arr,            \* the backing array of Server.jobs (the part written so far)
  len,            \* len(Server.jobs)
  njobs,          \* Job objects allocated so far
  scheduler, delay, state, err, prev, next, at,   \* the fields of each Job
  runs,           \* bag of the goroutines started by "go j.run"
  fin,            \* the run that returned in the last step, or NoFin
  sv,             \* each Serve caller: pc, timer deadline, returned value
  sp,             \* the Stop caller's pc
  nw              \* each New caller: pc, its job, the len it read

jobVars == <<scheduler, delay, state, err, prev, next, at>>
vars == <<now, running, stop, nextScheduled, arr, len, njobs, scheduler, delay,
          state, err, prev, next, at, runs, fin, sv, sp, nw>>

\* no run returned in the last step; no job is numbered 0
NoFin == [job |-> 0, out |-> "", nd |-> 0]

\* s.jobs as the code sees it
jobs == SubSeq(arr, 1, len)

Max(a, b) == IF a >= b THEN a ELSE b

\* a caller of Serve that is not in a call
Idle == [pc |-> "idle", timer |-> 0, rv |-> "", line |-> 0]

\* Serve returning v at a line of server.go
return(v, line) == [pc |-> "ret", timer |-> 0, rv |-> v, line |-> line]


\* ------------------------------------------------------------------ Job
\* Job.init (job.go:125-127)
init(j, t) == SchedNext(scheduler[j], t)

\* a less function that compares the next times only
lessByNext(a, b) == next[a] < next[b]

\* the less function of sortJobs (job.go:130-138), jobs[i] = a, jobs[j] = b
less(a, b) ==
  IF next[a] = Zero \/ state[a] = Running THEN FALSE
  ELSE IF next[b] = Zero \/ state[b] = Running THEN TRUE
  ELSE next[a] < next[b]

\* sort.SliceStable: x goes left of y only when less(x, y)
RECURSIVE insert(_, _)
insert(s, x) ==
  IF s = << >> THEN << x >>
  ELSE IF less(x, s[Len(s)])
       THEN Append(insert(SubSeq(s, 1, Len(s) - 1), x), s[Len(s)])
       ELSE Append(s, x)

\* sortJobs (job.go:129-139)
RECURSIVE sortJobs(_)
sortJobs(s) ==
  IF s = << >> THEN << >>
  ELSE insert(sortJobs(SubSeq(s, 1, Len(s) - 1)), s[Len(s)])

\* the condition that ends the walk of Serve (server.go:75)
notDue(j, n) == next[j] = Zero \/ next[j] > n

\* the jobs the walk of Serve dispatches (server.go:74-79)
RECURSIVE walk(_, _)
walk(s, n) ==
  IF s = << >> THEN << >>
  ELSE IF notDue(s[1], n) THEN << >>
  ELSE << s[1] >> \o walk(Tail(s), n)

Range(s) == {s[i] : i \in DOMAIN s}

\* the goroutine "go j.run(n, errlog)" (server.go:78)
goRun(j) == [job |-> j, pc |-> "start", nd |-> next[j], out |-> ""]

\* the executions of run in progress for job j
inFlight(b, j) ==
  LET S == {r \in BagToSet(b) : r.job = j} IN
    BagCardinality([r \in S |-> b[r]])

\* the outcomes of the callback j.f: nil, an error, a panic
Outcomes == {"nil", "error", "panic"}

\* job.go:103: the first statement of run; j.at holds the trigger time n of
\* "go j.run(n, errlog)", which ServeTimer stored
RunStart(r) ==
  /\ r.pc = "start"
  /\ state' = [state EXCEPT ![r.job] = Running]
  /\ at' = at
  /\ runs' = (runs (-) SetToBag({r})) (+) SetToBag({[r EXCEPT !.pc = "call"]})
  /\ fin' = NoFin
  /\ UNCHANGED <<now, running, stop, nextScheduled, arr, len, njobs, scheduler,
                 delay, err, prev, next, sv, sp, nw>>

\* the error run leaves in j.err: the callback's, or the one made of a panic
errAfter(o) == IF o = "nil" THEN Nil ELSE "error"

\* the state run leaves when the callback returned (job.go:109-114)
stateAfter(o) == IF o = "nil" THEN Stopped ELSE Failed

\* run without the deferred recover of job.go:86-100: the panic of a callback
\* unwinds the goroutine and ends the process, the Serve loop with it
RunCallNoRecover(r, o) ==
  /\ r.pc = "call"
  /\ IF o = "panic"
     THEN /\ runs' = EmptyBag
          /\ sv' = [s \in ServeIds |-> return("panic", 78)]
          /\ UNCHANGED <<err, state>>
     ELSE /\ err' = [err EXCEPT ![r.job] = errAfter(o)]
          /\ state' = [state EXCEPT ![r.job] = stateAfter(o)]
          /\ runs' = (runs (-) SetToBag({r})) (+)
                     SetToBag({[r EXCEPT !.pc = "advance", !.out = o]})
          /\ sv' = sv
  /\ fin' = NoFin
  /\ UNCHANGED <<now, running, stop, nextScheduled, arr, len, njobs, scheduler,
                 delay, prev, next, at, sp, nw>>

\* job.go:109-114, and for a panic the deferred recover of job.go:86-100,
\* after which run returns
RunCall(r, o) ==
  /\ r.pc = "call"
  /\ err' = [err EXCEPT ![r.job] = errAfter(o)]
  /\ state' = [state EXCEPT ![r.job] = stateAfter(o)]
  /\ IF o = "panic"
     THEN /\ runs' = runs (-) SetToBag({r})
          /\ fin' = [job |-> r.job, out |-> o, nd |-> r.nd]
     ELSE /\ runs' = (runs (-) SetToBag({r})) (+)
                     SetToBag({[r EXCEPT !.pc = "advance", !.out = o]})
          /\ fin' = NoFin
  /\ UNCHANGED <<now, running, stop, nextScheduled, arr, len, njobs, scheduler,
                 delay, prev, next, at, sv, sp, nw>>

\* the reference time of the new next (job.go:117-121)
reference(j) == IF delay[j] THEN now ELSE at[j]

\* job.go:116-121, after which run returns
RunAdvance(r) ==
  /\ r.pc = "advance"
  /\ prev' = [prev EXCEPT ![r.job] = next[r.job]]
  /\ next' = [next EXCEPT ![r.job] = SchedNext(scheduler[r.job], reference(r.job))]
  /\ runs' = runs (-) SetToBag({r})
  /\ fin' = [job |-> r.job, out |-> r.out, nd |-> r.nd]
  /\ UNCHANGED <<now, running, stop, nextScheduled, arr, len, njobs, scheduler,
                 delay, state, err, at, sv, sp, nw>>


\* --------------------------------------------------------------- Server

\* server.go:39-41
ServeCheck(s) ==
  /\ sv[s].pc = "idle"
  /\ sv' = [sv EXCEPT ![s] = IF running THEN return(ErrRunning, 40)
                             ELSE [Idle EXCEPT !.pc = "set"]]
  /\ fin' = NoFin
  /\ UNCHANGED <<now, running, stop, nextScheduled, arr, len, njobs, jobVars,
                 runs, sp, nw>>

\* server.go:43
ServeSet(s) ==
  /\ sv[s].pc = "set"
  /\ running' = TRUE
  /\ sv' = [sv EXCEPT ![s].pc = "start"]
  /\ fin' = NoFin
  /\ UNCHANGED <<now, stop, nextScheduled, arr, len, njobs, jobVars, runs, sp, nw>>

\* server.go:45-53: no job, or init of every job against one time.Now()
ServeStart(s) ==
  /\ sv[s].pc = "start"
  /\ IF len = 0
     THEN /\ running' = FALSE
          /\ sv' = [sv EXCEPT ![s] = return(ErrNoJobs, 47)]
          /\ next' = next
     ELSE /\ running' = running
          /\ sv' = [sv EXCEPT ![s].pc = "loop"]
          /\ next' = [j \in JobIds |->
                        IF j \in Range(jobs) THEN init(j, now) ELSE next[j]]
  /\ fin' = NoFin
  /\ UNCHANGED <<now, stop, nextScheduled, arr, len, njobs, scheduler, delay,
                 state, err, prev, at, runs, sp, nw>>

\* the duration of the timer (server.go:63-66), as its deadline
deadline(t) == Max(now, t)

\* server.go:56-67: sort in place, give up when the first job has no next,
\* else arm the timer
ServeSort(s) ==
  /\ sv[s].pc = "loop"
  /\ LET sorted == sortJobs(jobs) IN
       /\ arr' = sorted \o SubSeq(arr, len + 1, Len(arr))
       /\ IF next[sorted[1]] = Zero
          THEN /\ running' = FALSE
               /\ sv' = [sv EXCEPT ![s] = return(ErrNoJobs, 60)]
          ELSE /\ running' = running
               /\ sv' = [sv EXCEPT ![s] =
                           [Idle EXCEPT !.pc = "select",
                                        !.timer = deadline(next[sorted[1]])]]
  /\ fin' = NoFin
  /\ UNCHANGED <<now, stop, nextScheduled, len, njobs, jobVars, runs, sp, nw>>

\* server.go:70-72: the stop case of the select
ServeStop(s) ==
  /\ sv[s].pc = "select"
  /\ stop > 0
  /\ stop' = stop - 1
  /\ sv' = [sv EXCEPT ![s] = return(Nil, 72)]
  /\ fin' = NoFin
  /\ UNCHANGED <<now, running, nextScheduled, arr, len, njobs, jobVars, runs,
                 sp, nw>>

\* server.go:73-79: the timer case of the select; n is the time the timer
\* fired, which every dispatched run gets as its trigger time (j.at, job.go:109)
ServeTimer(s, n, R) ==
  /\ sv[s].pc = "select"
  /\ sv[s].timer <= n /\ n <= now
  /\ LET due == walk(jobs, n) IN
       /\ \A i \in DOMAIN due : inFlight(runs, due[i]) < R
       /\ runs' = runs (+) SetToBag({goRun(due[i]) : i \in DOMAIN due})
       /\ at' = [j \in JobIds |-> IF j \in Range(due) THEN n ELSE at[j]]
  /\ sv' = [sv EXCEPT ![s] = [Idle EXCEPT !.pc = "loop"]]
  /\ fin' = NoFin
  /\ UNCHANGED <<now, running, stop, nextScheduled, arr, len, njobs, scheduler,
                 delay, state, err, prev, next, sp, nw>>

\* the caller of Serve has its result and may call again
ServeReturn(s) ==
  /\ sv[s].pc = "ret"
  /\ sv' = [sv EXCEPT ![s] = Idle]
  /\ fin' = NoFin
  /\ UNCHANGED <<now, running, stop, nextScheduled, arr, len, njobs, jobVars,
                 runs, sp, nw>>

\* Stop without the test of server.go:86
StopCheckAlways ==
  /\ sp = "idle"
  /\ sp' = "set"
  /\ fin' = NoFin
  /\ UNCHANGED <<now, running, stop, nextScheduled, arr, len, njobs, jobVars,
                 runs, sv, nw>>

\* server.go:86-88
StopCheck ==
  /\ sp = "idle"
  /\ sp' = IF running THEN "set" ELSE "noop"
  /\ fin' = NoFin
  /\ UNCHANGED <<now, running, stop, nextScheduled, arr, len, njobs, jobVars,
                 runs, sv, nw>>

\* server.go:90
StopSet ==
  /\ sp = "set"
  /\ running' = FALSE
  /\ sp' = "send"
  /\ fin' = NoFin
  /\ UNCHANGED <<now, stop, nextScheduled, arr, len, njobs, jobVars, runs, sv, nw>>

\* server.go:91: the send blocks while the channel is full
StopSend ==
  /\ sp = "send"
  /\ stop < StopCap
  /\ stop' = stop + 1
  /\ sp' = "done"
  /\ fin' = NoFin
  /\ UNCHANGED <<now, running, nextScheduled, arr, len, njobs, jobVars, runs,
                 sv, nw>>

\* Stop has returned to its caller, at server.go:87 ("noop") or after
\* server.go:91 ("done")
StopReturn ==
  /\ sp \in {"noop", "done"}
  /\ sp' = "idle"
  /\ fin' = NoFin
  /\ UNCHANGED <<now, running, stop, nextScheduled, arr, len, njobs, jobVars,
                 runs, sv, nw>>

NewIdle == [pc |-> "idle", job |-> 0, l |-> 0]

\* job.go:186-192: the Job literal, and append reading the slice header
NewJob(t, c, J) ==
  /\ nw[t].pc = "idle"
  /\ njobs < J
  /\ njobs' = njobs + 1
  /\ scheduler' = [scheduler EXCEPT ![njobs + 1] = [kind |-> c.kind, v |-> c.v]]
  /\ delay' = [delay EXCEPT ![njobs + 1] = c.delay]
  /\ nw' = [nw EXCEPT ![t] = [pc |-> "append", job |-> njobs + 1, l |-> len]]
  /\ fin' = NoFin
  /\ UNCHANGED <<now, running, stop, nextScheduled, arr, len, state, err, prev,
                 next, at, runs, sv, sp>>

\* job.go:192: append writing the element and s.jobs taking the new header
NewAppend(t) ==
  /\ nw[t].pc = "append"
  /\ arr' = IF nw[t].l < Len(arr) THEN [arr EXCEPT ![nw[t].l + 1] = nw[t].job]
            ELSE Append(arr, nw[t].job)
  /\ len' = nw[t].l + 1
  /\ nw' = [nw EXCEPT ![t].pc = "running"]
  /\ fin' = NoFin
  /\ UNCHANGED <<now, running, stop, nextScheduled, njobs, jobVars, runs, sv, sp>>

\* job.go:195-196
NewInit(t) ==
  /\ nw[t].pc = "running"
  /\ IF running
     THEN /\ next' = [next EXCEPT ![nw[t].job] = init(nw[t].job, now)]
          /\ nw' = [nw EXCEPT ![t].pc = "len"]
     ELSE /\ next' = next
          /\ nw' = [nw EXCEPT ![t] = NewIdle]
  /\ fin' = NoFin
  /\ UNCHANGED <<now, running, stop, nextScheduled, arr, len, njobs, scheduler,
                 delay, state, err, prev, at, runs, sv, sp>>

\* job.go:197
NewLen(t) ==
  /\ nw[t].pc = "len"
  /\ nw' = [nw EXCEPT ![t] = IF nextScheduled = 0
                             THEN [nw[t] EXCEPT !.pc = "send"] ELSE NewIdle]
  /\ fin' = NoFin
  /\ UNCHANGED <<now, running, stop, nextScheduled, arr, len, njobs, jobVars,
                 runs, sv, sp>>

\* job.go:198: the send blocks while the channel is full
NewSend(t) ==
  /\ nw[t].pc = "send"
  /\ nextScheduled < NextScheduledCap
  /\ nextScheduled' = nextScheduled + 1
  /\ nw' = [nw EXCEPT ![t] = NewIdle]
  /\ fin' = NoFin
  /\ UNCHANGED <<now, running, stop, arr, len, njobs, jobVars, runs, sv, sp>>

\* the scheduler Tick, Cron and At construct from their argument
\* (job.go:155, 166, 177)
construct(a) ==
  IF a.fn = "Tick" THEN tickerNew(a.arg)
  ELSE IF a.fn = "Cron"
       THEN LET p == Parse(a.arg) IN
              [err |-> p.err, s |-> [kind |-> "cron", v |-> p.data]]
       ELSE [err |-> FALSE, s |-> [kind |-> "at", v |-> a.arg]]

\* job.go:155, 166, 177: Tick, Cron or At is called with the arguments a and
\* constructs the scheduler
Call(t, a, J) ==
  /\ nw[t].pc = "idle"
  /\ njobs < J
  /\ nw' = [nw EXCEPT ![t] = [pc |-> "made", job |-> 0, l |-> 0, a |-> a,
                               res |-> construct(a)]]
  /\ fin' = NoFin
  /\ UNCHANGED <<now, running, stop, nextScheduled, arr, len, njobs, jobVars,
                 runs, sv, sp>>

\* Tick, Cron and At calling New whatever the constructor returned
CallNewAlways(t, J) ==
  /\ nw[t].pc = "made"
  /\ njobs < J
  /\ njobs' = njobs + 1
  /\ scheduler' = [scheduler EXCEPT ![njobs + 1] = nw[t].res.s]
  /\ delay' = [delay EXCEPT ![njobs + 1] = nw[t].a.delay]
  /\ nw' = [nw EXCEPT ![t] = [pc |-> "append", job |-> njobs + 1, l |-> len]]
  /\ fin' = NoFin
  /\ UNCHANGED <<now, running, stop, nextScheduled, arr, len, state, err, prev,
                 next, at, runs, sv, sp>>

\* job.go:156-159, 167-170, 177-178: on an error return it, else call New,
\* which makes the Job and reads the slice header (job.go:186-192)
CallNew(t, J) ==
  /\ nw[t].pc = "made"
  /\ IF nw[t].res.err
     THEN /\ nw' = [nw EXCEPT ![t].pc = "err"]
          /\ UNCHANGED <<njobs, scheduler, delay>>
     ELSE /\ njobs < J
          /\ njobs' = njobs + 1
          /\ scheduler' = [scheduler EXCEPT ![njobs + 1] = nw[t].res.s]
          /\ delay' = [delay EXCEPT ![njobs + 1] = nw[t].a.delay]
          /\ nw' = [nw EXCEPT ![t] = [pc |-> "append", job |-> njobs + 1,
                                       l |-> len]]
  /\ fin' = NoFin
  /\ UNCHANGED <<now, running, stop, nextScheduled, arr, len, state, err, prev,
                 next, at, runs, sv, sp>>

\* Tick or Cron has returned its error to the caller
CallReturn(t) ==
  /\ nw[t].pc = "err"
  /\ nw' = [nw EXCEPT ![t] = NewIdle]
  /\ fin' = NoFin
  /\ UNCHANGED <<now, running, stop, nextScheduled, arr, len, njobs, jobVars,
                 runs, sv, sp>>

\* time passes
Tick ==
  /\ now < MaxTime
  /\ now' = now + 1
  /\ fin' = NoFin
  /\ UNCHANGED <<running, stop, nextScheduled, arr, len, njobs, jobVars, runs,
                 sv, sp, nw>>

\* NewServer (server.go:28-32); no Job exists yet
Init ==
  /\ now = 1
  /\ running = FALSE
  /\ stop = 0
  /\ nextScheduled = 0
  /\ arr = << >>
  /\ len = 0
  /\ njobs = 0
  /\ scheduler = [j \in JobIds |-> [kind |-> "ticker", v |-> 1]]
  /\ delay = [j \in JobIds |-> FALSE]
  /\ state = [j \in JobIds |-> Stopped]
  /\ err = [j \in JobIds |-> "nil"]
  /\ prev = [j \in JobIds |-> Zero]
  /\ next = [j \in JobIds |-> Zero]
  /\ at = [j \in JobIds |-> Zero]
  /\ runs = EmptyBag
  /\ fin = NoFin
  /\ sv = [s \in ServeIds |-> Idle]
  /\ sp = "idle"
  /\ nw = [t \in NewIds |-> NewIdle]

\* the steps of the callers S of Serve that no stop signal takes part in; the
\* walk dispatches while fewer than R runs of each due job are in flight
Loop(S, R) ==
  \/ \E s \in S : ServeCheck(s)
  \/ \E s \in S : ServeSet(s)
  \/ \E s \in S : ServeStart(s)
  \/ \E s \in S : ServeSort(s)
  \/ \E s \in S : \E n \in 1..MaxTime : ServeTimer(s, n, R)
  \/ \E s \in S : ServeReturn(s)

\* the steps of the callers S of Serve
Serve(S, R) ==
  \/ Loop(S, R)
  \/ \E s \in S : ServeStop(s)

\* the steps of the caller of Stop
Stop ==
  \/ StopCheck
  \/ StopSet
  \/ StopSend
  \/ StopReturn

\* the steps of the callers N of New, registering at most J jobs with the
\* configurations C
New(N, C, J) ==
  \/ \E t \in N : \E c \in C : NewJob(t, c, J)
  \/ \E t \in N : NewAppend(t)
  \/ \E t \in N : NewInit(t)
  \/ \E t \in N : NewLen(t)
  \/ \E t \in N : NewSend(t)

\* the steps of the callers N of Tick, Cron and At, registering at most J
\* jobs with the arguments A
Register(N, A, J) ==
  \/ \E t \in N : \E a \in A : Call(t, a, J)
  \/ \E t \in N : CallNew(t, J)
  \/ \E t \in N : CallReturn(t)
  \/ \E t \in N : NewAppend(t)
  \/ \E t \in N : NewInit(t)
  \/ \E t \in N : NewLen(t)
  \/ \E t \in N : NewSend(t)

\* the steps of the dispatched goroutines
run ==
  \/ \E r \in BagToSet(runs) : RunStart(r)
  \/ \E r \in BagToSet(runs) : \E o \in Outcomes : RunCall(r, o)
  \/ \E r \in BagToSet(runs) : RunAdvance(r)

\* one caller of each entry point and one job, whose runs may overlap
Next ==
  \/ Serve({1}, OverlapRuns)
  \/ Stop
  \/ New({1}, Configs, OverlapJobs)
  \/ run
  \/ Tick
Spec == Init /\ [][Next]_vars

\* several jobs beside a dispatch loop that is not stopped
NextJobs ==
  \/ Loop({1}, MaxRuns)
  \/ New({1}, Configs, MaxJobs)
  \/ run
  \/ Tick
SpecJobs == Init /\ [][NextJobs]_vars

\* concurrent callers of New beside a dispatch loop that is not stopped
Tickers == {c \in Configs : c.kind = "ticker" /\ ~c.delay}
NextNew ==
  \/ Loop({1}, MaxRuns)
  \/ New(NewIds, Tickers, MaxJobs)
  \/ run
  \/ Tick
SpecNew == Init /\ [][NextNew]_vars

\* concurrent callers of Serve, a caller of Stop and one job
NextServe ==
  \/ Serve(ServeIds, MaxRuns)
  \/ Stop
  \/ New({1}, Tickers, OverlapJobs)
  \/ run
  \/ Tick
SpecServe == Init /\ [][NextServe]_vars

\* the calls of Tick, Cron and At beside a dispatch loop: a ticker, a ticker
\* of duration 0, a one-shot, the expression "2 * * * * *" and the
\* expression "* * * * * 8"
second2 == expr(<< text(<< <<2, 2>> >>), star, star, star, star, star >>)
week8 == expr(<< star, star, star, star, star, text(<< <<8, 8>> >>) >>)
RegArgs ==
  { [fn |-> "Tick", arg |-> 1, delay |-> FALSE],
    [fn |-> "Tick", arg |-> 0, delay |-> FALSE],
    [fn |-> "At", arg |-> 2, delay |-> FALSE],
    [fn |-> "Cron", arg |-> second2, delay |-> FALSE],
    [fn |-> "Cron", arg |-> week8, delay |-> FALSE] }
NextReg ==
  \/ Loop({1}, MaxRuns)
  \/ Register({1}, RegArgs, MaxJobs)
  \/ run
  \/ Tick
SpecReg == Init /\ [][NextReg]_vars

\* the texts of a field that Parse is tried on: the wildcard, an integer, a
\* list of a range and an integer
one == text(<< <<1, 1>> >>)
some == text(<< <<3, 5>>, <<1, 1>> >>)
FieldTexts == {star, one, some}

\* the sequences of n field texts taken from F
Exprs(F, n) == {expr(fs) : fs \in [1..n -> F]}

\* the calls of Cron: every expression of six of the field texts, expressions
\* of five and of seven fields, one with a week of 8, a macro and an unknown
\* macro
CronArgs ==
  { [fn |-> "Cron", arg |-> e, delay |-> FALSE] :
      e \in Exprs(FieldTexts, 6) \cup Exprs({star, one}, 5)
             \cup Exprs({star, one}, 7)
             \cup {week8, macro("@daily"), macro("@not-exists")} }

\* Cron parses its expression and hands the rule to New
NextCron ==
  \/ \E t \in {1} : nw[t].pc = "idle" /\ \E a \in CronArgs : Call(t, a, MaxJobs)
  \/ \E t \in {1} : CallNew(t, MaxJobs)
  \/ \E t \in {1} : CallReturn(t)
SpecCron == Init /\ [][NextCron]_vars

\* the values the entries of a field are made of: the ends of the fields'
\* bounds and their neighbours
Ends == {0, 1, 5, 7, 8, 12, 13, 60}
Entries == {<<lo, hi>> : lo \in Ends, hi \in Ends} \ {e \in Ends \X Ends : e[1] > e[2]}
Lists == UNION {[1..n -> Entries] : n \in 1..MaxEntries}

\* the expression whose field typ has the entries l, the others the wildcard
only(typ, l) == expr([i \in FieldIndices |-> IF i = typ THEN text(l) ELSE star])

\* the calls of Cron with every list of entries in every field
FieldArgs ==
  { [fn |-> "Cron", arg |-> only(typ, l), delay |-> FALSE] :
      typ \in FieldIndices, l \in Lists }

NextField ==
  \/ \E t \in {1} : nw[t].pc = "idle" /\ \E a \in FieldArgs : Call(t, a, MaxJobs)
  \/ \E t \in {1} : CallNew(t, MaxJobs)
  \/ \E t \in {1} : CallReturn(t)
SpecField == Init /\ [][NextField]_vars

\* a collection of jobs in any states with any next times, as a dispatch loop
\* finds it at server.go:56; a job that is Running has its run in the callback
SortIds == 1..SortJobs
InitSort ==
  /\ now = 1
  /\ running = TRUE
  /\ stop = 0
  /\ nextScheduled = 0
  /\ arr = [i \in SortIds |-> i]
  /\ len \in SortIds
  /\ njobs = SortJobs
  /\ scheduler = [j \in SortIds |-> [kind |-> "ticker", v |-> 1]]
  /\ delay = [j \in SortIds |-> FALSE]
  /\ state \in [SortIds -> {Stopped, Running, Failed}]
  /\ err = [j \in SortIds |-> IF state[j] = Failed THEN "error" ELSE Nil]
  /\ prev = [j \in SortIds |-> Zero]
  /\ next \in [SortIds -> 0..SortTime]
  /\ at = [j \in SortIds |-> Zero]
  /\ runs = SetToBag({[job |-> j, pc |-> "call", nd |-> next[j], out |-> ""] :
                        j \in {k \in SortIds : state[k] = Running}})
  /\ fin = NoFin
  /\ sv = [s \in ServeIds |-> IF s = 1 THEN [Idle EXCEPT !.pc = "loop"] ELSE Idle]
  /\ sp = "idle"
  /\ nw = [t \in NewIds |-> NewIdle]

\* the dispatch loop sorts the collection
NextSort == \E s \in {1} : ServeSort(s)
SpecSort == InitSort /\ [][NextSort]_vars

\* ---------------------------------------------------------------- claims

\* a run returned in the last step
finished == fin.job \in JobIds

\* a run of job j is past its first statement
executing(j) == \E r \in BagToSet(runs) : r.job = j /\ r.pc # "start"

\* C1: a job that is Running, its run not yet finished, is not dispatched
\* again: no step adds a run of a job that is Running with a run in progress.
C1_RunningNotRedispatched ==
  [][\A j \in JobIds :
       (state[j] = Running /\ executing(j))
         => inFlight(runs', j) <= inFlight(runs, j)]_vars

\* C2: when a run has returned, whatever the outcome, prev is the next the job
\* had at dispatch and next is after prev or is the zero time.
C2_RunAdvancesNext ==
  finished =>
    /\ prev[fin.job] = fin.nd
    /\ next[fin.job] > prev[fin.job] \/ next[fin.job] = Zero

\* C3: when a run has returned, the job is Stopped with a nil err exactly when
\* the callback returned nil, else Failed with a non-nil err; never Running.
C3_RunOutcome ==
  finished =>
    /\ fin.out = "nil" => state[fin.job] = Stopped /\ err[fin.job] = Nil
    /\ fin.out # "nil" => state[fin.job] = Failed /\ err[fin.job] # Nil

\* a step of run r in which the callback fails, or which follows its error
failing(r) ==
  \/ RunCall(r, "error")
  \/ RunCall(r, "panic")
  \/ r.out = "error" /\ RunAdvance(r)

C5_FailedServeMutatesNothing ==
  [][\A s \in ServeIds : (len = 0 /\ ServeStart(s)) => ~running]_vars

\* C6: once Stop has been called on a running server the loop returns nil:
\* the loop does not return ErrNoJobs (server.go:60) while that Stop is under
\* way or its signal is in the channel.
C6_StopReturnsNil ==
  \A s \in ServeIds :
    (sv[s].pc = "ret" /\ sv[s].line = 60) => (stop = 0 /\ sp \notin {"set", "send"})

\* C7: Stop on a server that is not running returns at once and changes
\* nothing, and its caller is where it was before the call.
C7_StopNotRunningNoOp ==
  [][/\ (~running /\ StopCheck) =>
          /\ sp' = "noop"
          /\ UNCHANGED <<now, running, stop, nextScheduled, arr, len, njobs,
                         jobVars, runs, sv, nw>>
     /\ (sp = "noop" /\ StopReturn) =>
          /\ sp' = "idle"
          /\ UNCHANGED <<now, running, stop, nextScheduled, arr, len, njobs,
                         jobVars, runs, sv, nw>>]_vars

\* C7: Stop has returned from a server that is not running, which holds a job
C7_Witness == sp = "noop" /\ ~running /\ len > 0 /\ stop = 0

\* C8: the loop gives up with ErrNoJobs (server.go:58-60) only when the next
\* of every registered job is the zero time, and leaves the running flag false.
C8_NoJobsOnlyWhenNoneLeft ==
  [][\A s \in ServeIds :
       (ServeSort(s) /\ sv'[s].pc = "ret") =>
         /\ \A j \in Range(jobs) : next[j] = Zero
         /\ ~running']_vars

\* New has returned from registering job j
registered(j) == j \in 1..njobs /\ \A t \in NewIds : nw[t].job # j

\* C9: a job registered while the server runs is dispatched when its next is
\* reached: once it is due and was never dispatched, the loop is not asleep
\* on a timer with a later deadline.
C9_LoopWakesForNewJob ==
  \A s \in ServeIds : \A j \in Range(jobs) :
    ( /\ sv[s].pc = "select"
      /\ registered(j)
      /\ at[j] = Zero /\ next[j] # Zero /\ next[j] <= now )
    => sv[s].timer <= now

\* C10: every job whose registration has written the collection is in it
\* exactly once.
C10_RegisteredOnce ==
  \A j \in 1..njobs :
    (\A t \in NewIds : nw[t].job = j => nw[t].pc # "append")
    => Cardinality({i \in 1..len : arr[i] = j}) = 1

\* the callback of job j has been entered before: a run of j returned (its
\* err or prev is written), or one is past job.go:103
invoked(j) == prev[j] # Zero \/ err[j] # Nil \/ executing(j)

\* C12: the callback of a job on a one-shot (At) scheduler is invoked at most
\* once: no run of such a job enters the callback when one was entered before.
C12_AtRunsOnce ==
  [][\A r \in BagToSet(runs) :
       (scheduler[r.job].kind = "at" /\ RunStart(r)) => ~invoked(r.job)]_vars

\* job j is due at time n
due(j, n) == next[j] # Zero /\ next[j] <= n

\* C13: on a timer fire at n the walk dispatches, with trigger time n, every
\* job of the collection that is due at n, and no other job.
C13_WalkDispatchesAllDue ==
  [][\A s \in ServeIds : \A n \in 1..MaxTime :
       ServeTimer(s, n, MaxRuns) =>
         \A j \in Range(jobs) :
           /\ due(j, n) => (inFlight(runs', j) = inFlight(runs, j) + 1 /\ at'[j] = n)
           /\ ~due(j, n) => inFlight(runs', j) = inFlight(runs, j)]_vars

\* C15: when a run has returned, next is the scheduler's Next of the trigger
\* time the job was dispatched with (delay = false) or of the time the
\* callback completed (delay = true), which is not before the trigger time.
C15_NextFromReference ==
  finished =>
    /\ at[fin.job] <= now
    /\ next[fin.job] =
         SchedNext(scheduler[fin.job],
                   IF delay[fin.job] THEN now ELSE at[fin.job])

\* C16: no caller of New waits on the jobs-changed channel: none is at the
\* send of job.go:198 with the channel full; and at most one signal is pending.
C16_NewNeverBlocks ==
  /\ \A t \in NewIds : nw[t].pc = "send" => nextScheduled < NextScheduledCap
  /\ nextScheduled <= 1

\* the dispatch loop of a Serve call is under way: the call is in the for
\* loop of server.go:55-81
active(s) == sv[s].pc \in {"loop", "select"}

\* C17: at no time are the dispatch loops of two Serve calls under way.
C17_OneLoop == Cardinality({s \in ServeIds : active(s)}) <= 1

\* C18: while no Serve call is under way the stop channel is empty; and Stop
\* does not wait on a full channel that no dispatch loop will empty.
C18_StopConsumed ==
  /\ (\A s \in ServeIds : sv[s].pc \in {"idle", "ret"}) => stop = 0
  /\ (sp = "send" /\ stop = StopCap) => \E s \in ServeIds : active(s)


\* job j is ordered last: it has no next or is Running
last(j) == next[j] = Zero \/ state[j] = Running

\* the place of job j in the sequence q, which holds it once
pos(q, j) == CHOOSE i \in DOMAIN q : q[i] = j

\* C14: sortJobs gives a permutation of its input in which no job that is
\* ordered last (zero next, or Running) is ahead of a job that is not, the jobs
\* that are not are in ascending order of next, and two jobs that compare
\* equal (both ordered last, or the same next) keep their input order.
C14_SortJobs ==
  [][\A s \in ServeIds :
       ServeSort(s) =>
         LET in == jobs
             out == SubSeq(arr', 1, len)
         IN /\ Len(out) = Len(in) /\ Range(out) = Range(in)
            /\ \A i, k \in DOMAIN out :
                 i < k =>
                   /\ last(out[i]) => last(out[k])
                   /\ ~last(out[k]) => next[out[i]] <= next[out[k]]
            /\ \A i, k \in DOMAIN in :
                 ( /\ i < k
                   /\ \/ last(in[i]) /\ last(in[k])
                      \/ ~last(in[i]) /\ ~last(in[k]) /\ next[in[i]] = next[in[k]] )
                 => pos(out, in[i]) < pos(out, in[k])]_vars

\* C14: a sort has put a job with a next ahead of a Running job whose next is
\* earlier and which came first in the input, and has kept two jobs without a
\* next in their input order
C14_Witness ==
  /\ sv[1].pc = "select" /\ len = SortJobs
  /\ \E i, k \in 1..len :
       /\ i < k /\ arr[i] > arr[k]
       /\ state[arr[k]] = Running /\ next[arr[k]] # Zero
       /\ next[arr[k]] < next[arr[i]]
  /\ \E i, k \in 1..len :
       i < k /\ arr[i] < arr[k] /\ last(arr[i]) /\ last(arr[k])

\* C11: a call of Tick or Cron whose scheduler cannot be constructed returns
\* the error and leaves the collection and every job as they were; a call
\* that succeeds appends exactly one job, its own, which is Stopped.
C11_FailedRegistrationRegistersNothing ==
  [][\A t \in NewIds :
       /\ (nw[t].pc = "made" /\ nw[t].res.err /\ CallNew(t, MaxJobs)) =>
            /\ nw'[t].pc = "err"
            /\ UNCHANGED <<arr, len, njobs, jobVars>>
       /\ (nw[t].pc = "err" /\ CallReturn(t)) =>
            UNCHANGED <<arr, len, njobs, jobVars>>
       /\ (nw[t].pc = "made" /\ ~nw[t].res.err /\ CallNew(t, MaxJobs)) =>
            /\ UNCHANGED <<arr, len>>
            /\ nw'[t].job \notin Range(jobs)
       /\ (nw[t].pc = "append" /\ NewAppend(t)) =>
            /\ len' = len + 1
            /\ SubSeq(arr', 1, len) = jobs
            /\ arr'[len'] = nw[t].job
            /\ state[nw[t].job] = Stopped]_vars

\* C11: a call of Cron has returned an error from a server that holds a job
\* registered before, and the collection holds that job alone
C11_Witness ==
  /\ nw[1].pc = "err" /\ nw[1].a.fn = "Cron"
  /\ len = 1 /\ njobs = 1

\* the values the entries l of a field list
listed(l) == UNION {l[k][1]..l[k][2] : k \in DOMAIN l}

\* Cron is being called by t and has parsed its expression
parsed(t) == nw[t].pc = "made" /\ nw[t].a.fn = "Cron"

\* C19: of six fields that parse, those with explicit text are Concrete with
\* the listed values as bits, a wildcard is Any when no field to its left has
\* explicit text and Step when one has; six wildcards are an error and give
\* no rule.
C19_ParseClassifies ==
  \A t \in NewIds :
    parsed(t) =>
      LET fs == nw[t].a.arg.fields
          res == nw[t].res
      IN ( /\ nw[t].a.arg.macro = "" /\ Len(fs) = 6
           /\ \A i \in FieldIndices : ~parseField(i, fs[i]).err )
         => IF \A i \in FieldIndices : fs[i].star
            THEN res.err /\ res.s.v = << >>
            ELSE /\ ~res.err
                 /\ \A i \in FieldIndices :
                      res.s.v[i] =
                        IF ~fs[i].star THEN Concrete(listed(fs[i].list))
                        ELSE IF \E k \in 1..(i - 1) : ~fs[k].star THEN step
                        ELSE any

\* C19: the expression "* 1 * * * 3-5,1" is parsed: Any, a bit, Step three
\* times, four bits
C19_Witness ==
  /\ parsed(1) /\ ~nw[1].res.err
  /\ nw[1].a.arg.fields = << star, one, star, star, star, some >>
  /\ nw[1].res.s.v = << any, Concrete({1}), step, step, step,
                        Concrete({1, 3, 4, 5}) >>

\* C20: parseField gives, for the entries of a field, the bits of the listed
\* values, the week's 7 as bit 0; it gives an error and the value 0 when two
\* entries list the same value, when the week lists 0 and 7, or when a listed
\* value is outside the bounds of the field.
C20_ParseField ==
  \A t \in NewIds :
    parsed(t) =>
      \A i \in FieldIndices :
        (i <= Len(nw[t].a.arg.fields) /\ ~nw[t].a.arg.fields[i].star) =>
          LET l == nw[t].a.arg.fields[i].list
              r == parseField(i, nw[t].a.arg.fields[i])
              vs == listed(l)
              twice == \E j, k \in DOMAIN l :
                         j # k /\ (l[j][1]..l[j][2]) \cap (l[k][1]..l[k][2]) # {}
              alias == i = weekIndex /\ 0 \in vs /\ 7 \in vs
              outside == \E v \in vs : v < FieldMin[i] \/ v > FieldMax[i]
          IN IF twice \/ alias \/ outside
             THEN r.err /\ r.val = Concrete({}) /\ nw[t].res.err
             ELSE /\ ~r.err
                  /\ r.val = Concrete({IF i = weekIndex /\ v = 7 THEN 0 ELSE v :
                                         v \in vs})

\* C20: the week "5-7" is parsed to the bits 0, 5 and 6
C20_Witness ==
  /\ parsed(1) /\ ~nw[1].res.err
  /\ nw[1].a.arg.fields[weekIndex] = text(<< <<5, 7>> >>)
  /\ nw[1].res.s.v[weekIndex] = Concrete({0, 5, 6})

====
